---- MODULE Spec2Model ----
(***************************************************************************)
(* cargo-qp: one run of main() over a small work-tree.                     *)
(*                                                                         *)
(* A path is the sequence of its components (std::path::Components); a     *)
(* component is the sequence of the dot-separated pieces of its name, so   *)
(* that Path::extension is computed from the name.  RootDir is <<"/">>,    *)
(* CurDir is <<".">>.                                                      *)
(***************************************************************************)
EXTENDS Integers, Sequences, FiniteSets, TLC

VARIABLES
    opts,       \* Opts { dir, exts, no_clipboard } as parsed by clap
    fs,         \* which manifests exist in the work-tree, and what they hold
    pc,         \* position of main(): "crate_map", "walk", "compose", "deliver", "done", "failed"
    metadata,   \* what the cargo metadata query of crate_map returned
    crates,     \* CrateMap built by crate_map: crate-root -> <<name, version>>
    pending,    \* entries the walker has discovered and not yet yielded
    seen,       \* regular files the walker yielded as Ok(dent)
    wanted,     \* Vec<PathBuf> of candidate files
    idx,        \* number of wanted paths composed so far
    labels,     \* the (name, version) resolved for each path of the compose loop
    out,        \* the composed String, as the sequence of the pieces pushed to it
    stdout,     \* texts printed to standard output
    clipboard,  \* texts set on the system clipboard
    stderr,     \* lines printed to the error stream
    exit        \* process exit status: "running", "ok", "error"

vars ==
    <<opts, fs, pc, metadata, crates, pending, seen, wanted, idx, labels, out,
      stdout, clipboard, stderr, exit>>

----------------------------------------------------------------------------
(* Bounds of the model *)

\* most extensions given on the command line
MaxExts == 1
\* most errors the walker yields in one run
MaxWalkErrs == 1

----------------------------------------------------------------------------
(* Names and paths *)

RootDir == <<"/">>
CurDir == <<".">>

CargoToml == <<"Cargo", ".", "toml">>
MainRs == <<"main", ".", "rs">>
OldRs == <<"old", ".", "rs">>
NotesTxt == <<"notes", ".", "txt">>
Makefile == <<"Makefile">>
DotEnv == <<".", "env">>
DotGit == <<".", "git">>
Target == <<"target">>
NodeModules == <<"node_modules">>
MemberB == <<"memberB">>
Src == <<"src">>
W == <<"w">>

\* the process's current directory, which is the work-tree's root
Cwd == <<RootDir, W>>

\* how the operating system resolves a path: relative paths against Cwd
Abs(p) ==
    IF p = <<>> THEN Cwd
    ELSE IF p[1] = RootDir THEN p
    ELSE IF p[1] = CurDir THEN Cwd \o Tail(p)
    ELSE Cwd \o p

\* Path::starts_with: component-wise prefix
starts_with(p, base) ==
    /\ Len(base) <= Len(p)
    /\ SubSeq(p, 1, Len(base)) = base

\* Path::join with a single normal component
join(dir, name) == Append(dir, name)

None == [none |-> TRUE]
Some(v) == [some |-> v]
IsSome(o) == "some" \in DOMAIN o

\* Path::parent: None for the empty path and for the root directory
parent(p) ==
    IF p = <<>> THEN None
    ELSE IF p[Len(p)] = RootDir THEN None
    ELSE Some(SubSeq(p, 1, Len(p) - 1))

\* Path::file_name
file_name(p) ==
    IF p = <<>> \/ p[Len(p)] \in {RootDir, CurDir} THEN None ELSE Some(p[Len(p)])

\* Path::strip_prefix(base).unwrap_or(path)
strip_prefix(p, base) ==
    IF starts_with(p, base) THEN SubSeq(p, Len(base) + 1, Len(p)) ELSE p

\* positions of the dots of a name
Dots(name) == {i \in 1..Len(name) : name[i] = "."}

Max(S) == CHOOSE m \in S : \A x \in S : x <= m

\* Path::extension: the part after the last dot, None when there is no dot
\* or when nothing stands before the last dot
extension(p) ==
    LET fname == file_name(p) IN
    IF ~IsSome(fname) THEN None
    ELSE LET name == fname.some
             d == Dots(name) IN
         IF d = {} THEN None
         ELSE IF Max(d) = 1 THEN None
         ELSE Some(SubSeq(name, Max(d) + 1, Len(name)))

----------------------------------------------------------------------------
(* Ordering of paths and the sort of the candidate list *)

\* Ord of std::path::Component: RootDir < CurDir < Normal, and normal
\* components by their bytes; the names of the model in that order
CompOrder ==
    <<RootDir, CurDir, DotEnv, DotGit, CargoToml, Makefile, MainRs, MemberB,
      NodeModules, NotesTxt, OldRs, Src, Target, W>>

CompRank(c) == CHOOSE i \in 1..Len(CompOrder) : CompOrder[i] = c

\* Ord of Path: the component sequences compared lexicographically
RECURSIVE PathLess(_, _)
PathLess(a, b) ==
    IF b = <<>> THEN FALSE
    ELSE IF a = <<>> THEN TRUE
    ELSE IF Head(a) = Head(b) THEN PathLess(Tail(a), Tail(b))
    ELSE CompRank(Head(a)) < CompRank(Head(b))

\* insertion of x into the ascending sequence s
RECURSIVE Insert(_, _)
Insert(s, x) ==
    IF s = <<>> THEN <<x>>
    ELSE IF PathLess(x, Head(s)) THEN <<x>> \o s
    ELSE <<Head(s)>> \o Insert(Tail(s), x)

\* a sort that keeps the sequence as the walk produced it
sort_unsorted(s) == s

\* Vec::sort of the candidate list
RECURSIVE sort(_)
sort(s) == IF s = <<>> THEN <<>> ELSE Insert(sort(SubSeq(s, 1, Len(s) - 1)), s[Len(s)])

----------------------------------------------------------------------------
(* The work-tree *)

\* what a manifest can hold: nothing that parses ("bad"), a package with its
\* own version ("pkg"), a workspace without a package ("ws"), a workspace with
\* a package ("wspkg"), a package whose version is inherited from the
\* workspace ("inherit", and "wsinherit" when it is the workspace's root)
RootManiKinds == {"none", "bad", "pkg", "ws", "wspkg", "wsinherit"}
MemberManiKinds == {"none", "bad", "pkg", "inherit"}
NestManiKinds == {"none", "pkg"}

\* entries of the work-tree, relative to its root
Files(f) ==
    {<<NotesTxt>>, <<OldRs>>, <<Target, CargoToml>>,
     <<MemberB, Makefile>>, <<MemberB, DotGit>>,
     <<MemberB, Src, MainRs>>, <<MemberB, Src, DotEnv>>,
     <<MemberB, Src, NodeModules, MainRs>>}
    \cup (IF f.rootMani # "none" THEN {<<CargoToml>>} ELSE {})
    \cup (IF f.memberMani # "none" THEN {<<MemberB, CargoToml>>} ELSE {})
    \cup (IF f.nestMani # "none" THEN {<<MemberB, Src, CargoToml>>} ELSE {})

Dirs == {<<Target>>, <<MemberB>>, <<MemberB, Src>>, <<MemberB, Src, NodeModules>>}

Entries(f) == Files(f) \cup Dirs

Children(f, d) == {e \in Entries(f) : Len(e) = Len(d) + 1 /\ starts_with(e, d)}

\* entries matched by a rule of the work-tree's .gitignore
Ignored(rel) == rel \in {<<OldRs>>}

\* what the manifest at an absolute path holds; "none" when there is none
ManiKind(f, abs) ==
    IF abs = Cwd \o <<CargoToml>> THEN f.rootMani
    ELSE IF abs = Cwd \o <<MemberB, CargoToml>> THEN f.memberMani
    ELSE IF abs = Cwd \o <<MemberB, Src, CargoToml>> THEN f.nestMani
    ELSE "none"

\* name and version of the package whose manifest is in an absolute directory
PkgName(absdir) ==
    IF absdir = Cwd THEN "foo"
    ELSE IF absdir = Cwd \o <<MemberB>> THEN "bar"
    ELSE "baz"

PkgVersion(absdir) ==
    IF absdir = Cwd THEN "1.0.0"
    ELSE IF absdir = Cwd \o <<MemberB>> THEN "0.2.0"
    ELSE "0.3.0"

\* Path::exists of a manifest path
exists(f, p) == ManiKind(f, Abs(p)) # "none"

\* Path::display: the components joined by the separator
RECURSIVE display(_)
display(p) ==
    IF p = <<>> THEN <<>>
    ELSE IF Len(p) = 1 THEN p[1]
    ELSE IF p[1] = RootDir THEN p[1] \o display(Tail(p))
    ELSE p[1] \o <<"/">> \o display(Tail(p))

\* the text of a file
Content(abs) == <<"<text of ">> \o display(abs) \o <<">">>

----------------------------------------------------------------------------
(* Manifests and the package index *)

\* Manifest::from_path: Err for a manifest that does not parse, otherwise
\* the package section (None for a workspace-only manifest) with the
\* version as written (Set) or inherited from the workspace
from_path(f, p) ==
    LET kind == ManiKind(f, Abs(p))
        dir == SubSeq(Abs(p), 1, Len(Abs(p)) - 1) IN
    IF kind \in {"none", "bad"} THEN [ok |-> FALSE]
    ELSE IF kind = "ws" THEN [ok |-> TRUE, package |-> None]
    ELSE [ok |-> TRUE,
          package |-> Some([name |-> PkgName(dir),
                            version |-> IF kind \in {"inherit", "wsinherit"}
                                        THEN [inherited |-> TRUE]
                                        ELSE [set |-> PkgVersion(dir)]])]

\* fmt_ver: stringify Inheritable<String>
fmt_ver(v) == IF "set" \in DOMAIN v THEN v.set ELSE "<workspace>"

\* a package as cargo metadata reports it: absolute manifest directory,
\* name and resolved version
MdPackage(absdir) ==
    [dir |-> absdir, name |-> PkgName(absdir), version |-> PkgVersion(absdir)]

\* the results `cargo metadata --manifest-path root/Cargo.toml` can have:
\* it may always fail; it succeeds only on a root manifest that parses and
\* whose workspace member parses, and then reports the root package, the
\* workspace member and any of the path dependencies of the tree
MetadataResults(f, root) ==
    LET kind == ManiKind(f, Abs(join(root, CargoToml)))
        memberOk == f.memberMani \in {"pkg", "inherit"}
        rootPkg == IF kind \in {"pkg", "wspkg", "wsinherit"}
                   THEN {MdPackage(Abs(root))} ELSE {}
        member == IF kind \in {"ws", "wspkg", "wsinherit"}
                  THEN {MdPackage(Abs(root) \o <<MemberB>>)} ELSE {}
        deps == (IF kind = "pkg" /\ memberOk
                 THEN {MdPackage(Abs(root) \o <<MemberB>>)} ELSE {})
                \cup (IF f.nestMani = "pkg"
                      THEN {MdPackage(Abs(root) \o <<MemberB, Src>>)} ELSE {})
    IN  {[ok |-> FALSE]}
        \cup (IF kind \in {"pkg", "ws", "wspkg", "wsinherit"} /\ (kind = "pkg" \/ memberOk)
              THEN {[ok |-> TRUE, packages |-> rootPkg \cup member \cup d] :
                        d \in SUBSET deps}
              ELSE {})

\* HashMap::insert
insert(map, k, v) == [x \in DOMAIN map \cup {k} |-> IF x = k THEN v ELSE map[x]]

\* the loop over md.packages: one key per manifest directory
FromPackages(pkgs) ==
    [d \in {q.dir : q \in pkgs} |->
        LET q == CHOOSE q \in pkgs : q.dir = d IN <<q.name, q.version>>]

EmptyMap == [d \in {} |-> <<>>]

\* crate_map that inserts the root manifest's package whether or not the
\* root is already a key
crate_map_overwrite(f, root, md) ==
    LET map == IF md.ok THEN FromPackages(md.packages) ELSE EmptyMap
        root_manifest == join(root, CargoToml)
        mani == from_path(f, root_manifest) IN
    IF exists(f, root_manifest) /\ mani.ok /\ IsSome(mani.package)
    THEN insert(map, root, <<mani.package.some.name, fmt_ver(mani.package.some.version)>>)
    ELSE map

\* crate_map: the value of the Ok it returns (it has no Err path)
crate_map(f, root, md) ==
    LET map == IF md.ok THEN FromPackages(md.packages) ELSE EmptyMap
        root_manifest == join(root, CargoToml)
        mani == from_path(f, root_manifest) IN
    IF root \notin DOMAIN map /\ exists(f, root_manifest)
       /\ mani.ok /\ IsSome(mani.package)
    THEN insert(map, root, <<mani.package.some.name, fmt_ver(mani.package.some.version)>>)
    ELSE map

----------------------------------------------------------------------------
(* The package resolver *)

\* the orders in which a HashMap with key set S can be iterated
Orders(S) ==
    {o \in [1..Cardinality(S) -> S] : \A i, j \in 1..Cardinality(S) : o[i] = o[j] => i = j}

\* Iterator::max_by_key over the roots in iteration order, by number of
\* components: the last of the greatest; None for no root
RECURSIVE max_by_key(_)
max_by_key(roots) ==
    IF roots = <<>> THEN None
    ELSE LET rest == max_by_key(Tail(roots)) IN
         IF IsSome(rest) /\ Len(rest.some) >= Len(Head(roots)) THEN rest
         ELSE Some(Head(roots))

\* the fallback loop: climb from dir upward until a manifest with a package
\* section is found
RECURSIVE climb(_, _)
climb(f, cur) ==
    IF ~IsSome(cur) THEN None
    ELSE LET dir == cur.some
             mani_path == join(dir, CargoToml)
             m == from_path(f, mani_path) IN
         IF exists(f, mani_path) /\ m.ok /\ IsSome(m.package)
         THEN Some(<<m.package.some.name, fmt_ver(m.package.some.version)>>)
         ELSE climb(f, parent(dir))

\* crate_for_path that takes the first matching root in iteration order
crate_for_path_first(f, p, map, order) ==
    LET matching == SelectSeq(order, LAMBDA root : starts_with(p, root)) IN
    IF matching # <<>> THEN Some(map[matching[1]]) ELSE climb(f, parent(p))

\* crate_for_path: longest-prefix match against the crate roots, else the
\* nearest Cargo.toml upward
crate_for_path(f, p, map, order) ==
    LET best == max_by_key(SelectSeq(order, LAMBDA root : starts_with(p, root))) IN
    IF IsSome(best) THEN Some(map[best.some]) ELSE climb(f, parent(p))

Sentinel == <<"unknown_crate", "?">>

\* the resolution with unwrap_or_default in place of the sentinel
resolve_default(f, p, map, order) ==
    LET r == crate_for_path(f, p, map, order) IN
    IF IsSome(r) THEN r.some ELSE <<"", "">>

\* crate_for_path(..).unwrap_or_else(|| sentinel)
resolve(f, p, map, order) ==
    LET r == crate_for_path(f, p, map, order) IN
    IF IsSome(r) THEN r.some ELSE Sentinel

----------------------------------------------------------------------------
(* The run of main *)

ExtUniverse == {"rs", "txt"}

\* the extension lists the command line can give
ExtChoices == UNION {[1..n -> ExtUniverse] : n \in 0..MaxExts}

\* the root directory as given: the default "." or the absolute path
DirChoices == {<<CurDir>>, Cwd}

\* the effective allow-list: rs and toml when none is given
exts_of(o) == IF o.exts = <<>> THEN <<"rs", "toml">> ELSE o.exts

SKIP == {Target, DotGit, NodeModules}

\* a filter that lets every entry through
filter_entry_all(rel) == TRUE

\* filter_entry: skip the big vendor directories by name
filter_entry(rel) == rel[Len(rel)] \notin SKIP

\* the entries of a directory that the walker will yield: those that no
\* ignore rule matches and that filter_entry lets through
Yielded(f, d) == {e \in Children(f, d) : ~Ignored(e) /\ filter_entry(e)}

\* the candidate test that goes by the extension alone
is_candidate_ext_only(path, exts) ==
    LET ext == extension(path) IN
    IsSome(ext) /\ \E i \in 1..Len(exts) : <<exts[i]>> = ext.some

\* the candidate test of the walk loop: any Cargo.toml, otherwise by extension
is_candidate(path, exts) ==
    \/ file_name(path) = Some(CargoToml)
    \/ LET ext == extension(path) IN
       IsSome(ext) /\ \E i \in 1..Len(exts) : <<exts[i]>> = ext.some

\* the header line of a section
header(name, version, rel) ==
    <<"=== ", name, " v", version, " :: ">> \o display(rel) \o <<" ===\n">>

Init ==
    /\ opts \in [dir : DirChoices, exts : ExtChoices, no_clipboard : BOOLEAN]
    /\ fs \in [rootMani : RootManiKinds, memberMani : MemberManiKinds,
               nestMani : NestManiKinds]
    /\ pc = "crate_map"
    /\ metadata = [ok |-> FALSE]
    /\ crates = EmptyMap
    /\ pending = {}
    /\ seen = {}
    /\ wanted = <<>>
    /\ idx = 0
    /\ labels = <<>>
    /\ out = <<>>
    /\ stdout = <<>>
    /\ clipboard = <<>>
    /\ stderr = <<>>
    /\ exit = "running"

\* step 1: crate_map(&opts.dir)?, then the walker is built at the root
BuildCrateMap ==
    /\ pc = "crate_map"
    /\ \E md \in MetadataResults(fs, opts.dir) :
           /\ metadata' = md
           /\ crates' = crate_map(fs, opts.dir, md)
    /\ pending' = Yielded(fs, <<>>)
    /\ pc' = "walk"
    /\ UNCHANGED <<opts, fs, seen, wanted, idx, labels, out, stdout, clipboard, stderr, exit>>

\* the walker goes depth-first: the next entry is one of the deepest found
Deepest(S) == {e \in S : \A x \in S : Len(x) <= Len(e)}

\* step 2, one iteration of the loop whose result is an Err: a directory
\* that cannot be read
WalkErr ==
    /\ pc = "walk"
    /\ Len(stderr) < MaxWalkErrs
    /\ \E e \in Deepest(pending) \cap Dirs :
           /\ pending' = pending \ {e}
           /\ stderr' = Append(stderr, "Walk error")
    /\ UNCHANGED <<opts, fs, pc, metadata, crates, seen, wanted, idx, labels, out, stdout, clipboard, exit>>

\* step 2, one iteration of the loop whose result is a directory entry
WalkStep ==
    /\ pc = "walk"
    /\ \E e \in Deepest(pending) :
           LET path == opts.dir \o e IN
           IF e \in Dirs
           THEN /\ pending' = (pending \ {e}) \cup Yielded(fs, e)
                /\ UNCHANGED <<seen, wanted>>
           ELSE /\ pending' = pending \ {e}
                /\ seen' = seen \cup {path}
                /\ wanted' = IF is_candidate(path, exts_of(opts))
                             THEN Append(wanted, path) ELSE wanted
    /\ UNCHANGED <<opts, fs, pc, metadata, crates, idx, labels, out, stdout, clipboard, stderr, exit>>

\* the walk is exhausted: wanted.sort()
WalkDone ==
    /\ pc = "walk"
    /\ pending = {}
    /\ wanted' = sort(wanted)
    /\ pc' = "compose"
    /\ UNCHANGED <<opts, fs, metadata, crates, pending, seen, idx, labels, out, stdout, clipboard, stderr, exit>>

\* the compose step that prints what it has composed when a read fails
ComposeStep_flush ==
    /\ pc = "compose"
    /\ idx < Len(wanted)
    /\ LET path == wanted[idx + 1]
           rel == strip_prefix(path, opts.dir) IN
       \E order \in Orders(DOMAIN crates), readOk \in BOOLEAN :
           LET pair == resolve(fs, path, crates, order)
               head == header(pair[1], pair[2], rel) IN
           /\ labels' = Append(labels, pair)
           /\ IF readOk
              THEN /\ out' = out \o head \o Content(Abs(path)) \o <<"\n">>
                   /\ idx' = idx + 1
                   /\ UNCHANGED <<pc, stderr, exit, stdout>>
              ELSE /\ out' = out \o head
                   /\ stdout' = Append(stdout, out)
                   /\ pc' = "failed"
                   /\ exit' = "error"
                   /\ stderr' = Append(stderr, "Error: reading")
                   /\ UNCHANGED idx
    /\ UNCHANGED <<opts, fs, metadata, crates, pending, seen, wanted, clipboard>>

\* step 3, one iteration: header, file text, newline; a failed read ends the run
ComposeStep ==
    /\ pc = "compose"
    /\ idx < Len(wanted)
    /\ LET path == wanted[idx + 1]
           rel == strip_prefix(path, opts.dir) IN
       \E order \in Orders(DOMAIN crates), readOk \in BOOLEAN :
           LET pair == resolve(fs, path, crates, order)
               head == header(pair[1], pair[2], rel) IN
           /\ labels' = Append(labels, pair)
           /\ IF readOk
              THEN /\ out' = out \o head \o Content(Abs(path)) \o <<"\n">>
                   /\ idx' = idx + 1
                   /\ UNCHANGED <<pc, stderr, exit>>
              ELSE /\ out' = out \o head
                   /\ pc' = "failed"
                   /\ exit' = "error"
                   /\ stderr' = Append(stderr, "Error: reading")
                   /\ UNCHANGED idx
    /\ UNCHANGED <<opts, fs, metadata, crates, pending, seen, wanted, stdout, clipboard>>

\* step 4: clipboard or stdout
Deliver ==
    /\ pc = "compose"
    /\ idx = Len(wanted)
    /\ IF opts.no_clipboard
       THEN /\ stdout' = Append(stdout, out)
            /\ pc' = "done"
            /\ exit' = "ok"
            /\ UNCHANGED <<clipboard, stderr>>
       ELSE \E clip \in {"ok", "new_err", "set_err"} :
            CASE clip = "ok" ->
                   /\ clipboard' = Append(clipboard, out)
                   /\ pc' = "done"
                   /\ exit' = "ok"
                   /\ UNCHANGED <<stdout, stderr>>
              [] clip = "new_err" ->
                   /\ stderr' = Append(stderr, "clipboard unavailable; printing to stdout")
                   /\ stdout' = Append(stdout, out)
                   /\ pc' = "done"
                   /\ exit' = "ok"
                   /\ UNCHANGED clipboard
              [] clip = "set_err" ->
                   /\ stderr' = Append(stderr, "Error: set_text")
                   /\ pc' = "failed"
                   /\ exit' = "error"
                   /\ UNCHANGED <<stdout, clipboard>>
    /\ UNCHANGED <<opts, fs, metadata, crates, pending, seen, wanted, idx, labels, out>>

Next == BuildCrateMap \/ WalkErr \/ WalkStep \/ WalkDone \/ ComposeStep \/ Deliver

Spec == Init /\ [][Next]_vars

----------------------------------------------------------------------------
(* Vocabulary of the properties *)

Range(s) == {s[i] : i \in 1..Len(s)}

Last(p) == p[Len(p)]

\* d is a directory above p, or p itself
IsPrefix(d, p) == Len(d) <= Len(p) /\ \A i \in 1..Len(d) : d[i] = p[i]

\* the keys of the index that are directory prefixes of p
Matching(p) == {d \in DOMAIN crates : IsPrefix(d, p)}

\* the entry of the work-tree a walked path stands for
RelOf(path) == CHOOSE e \in Entries(fs) : opts.dir \o e = path

\* the place of a walked path in the file system
Place(path) == Cwd \o RelOf(path)

\* the manifest kinds that have a package section
WithPackage == {"pkg", "wspkg", "inherit", "wsinherit"}

\* the compose loop has resolved the i-th candidate
Resolved(i) == i \in 1..Len(labels)

----------------------------------------------------------------------------
(* C1: longest prefix.  Whenever two keys d1 and d2 of the index are both  *)
(* directory prefixes of a path, d1 a proper ancestor of d2, the resolver  *)
(* prefers the deeper one: it returns the record stored under d2 (d2 being *)
(* the deepest key that is a prefix of the path) and never picks d1, in    *)
(* whatever order the index is iterated.                                   *)
C1_LongestPrefix ==
    pc # "walk" =>
    \A i \in 1..Len(wanted) :
        \A d1, d2 \in Matching(wanted[i]) :
            (Len(d1) < Len(d2) /\ \A d3 \in Matching(wanted[i]) : Len(d3) <= Len(d2))
            => /\ \A order \in Orders(DOMAIN crates) :
                      crate_for_path(fs, wanted[i], crates, order) = Some(crates[d2])
               /\ Resolved(i) => labels[i] = crates[d2]

\* a composed file that lies under two nested keys holding different records
C1_Witness ==
    \E i \in 1..Len(labels) :
        \E d1, d2 \in Matching(wanted[i]) :
            /\ Len(d1) < Len(d2)
            /\ crates[d1] # crates[d2]
            /\ labels[i] = crates[d2]

----------------------------------------------------------------------------
(* C2: in a workspace whose root manifest lists memberB, and memberB has   *)
(* its own manifest (bar, 0.2.0), every candidate file under memberB is    *)
(* labelled bar v0.2.0, whatever the root directory value and whether or   *)
(* not the root manifest has a package section.  (The workspace query has  *)
(* reported the member; no other manifest lies below memberB.)             *)
C2_MemberLabel ==
    (/\ fs.rootMani \in {"ws", "wspkg", "wsinherit"}
     /\ fs.memberMani = "pkg"
     /\ fs.nestMani = "none"
     /\ metadata.ok)
    => \A i \in 1..Len(labels) :
           IsPrefix(Cwd \o <<MemberB>>, Place(wanted[i])) => labels[i] = <<"bar", "0.2.0">>

----------------------------------------------------------------------------
(* C3: resolution is total.  Every path the compose loop reaches gets      *)
(* exactly one (name, version) value, in any iteration order; when no key  *)
(* is a prefix of the path and no directory above it holds a manifest with *)
(* a package section (a malformed manifest included), the value is the     *)
(* sentinel ("unknown_crate", "?") and the loop goes on to read the file.  *)
NoPackageAbove(path) ==
    \A n \in 0..(Len(Place(path)) - 1) :
        ManiKind(fs, SubSeq(Place(path), 1, n) \o <<CargoToml>>) \notin WithPackage

C3_Total ==
    /\ Len(labels) = IF pc = "failed" /\ idx < Len(wanted) THEN idx + 1 ELSE idx
    /\ pc # "walk" =>
       \A i \in 1..Len(wanted) :
           /\ \A order \in Orders(DOMAIN crates) :
                  LET r == resolve(fs, wanted[i], crates, order) IN
                  /\ Len(r) = 2
                  /\ Resolved(i) => labels[i] = r
           /\ (Matching(wanted[i]) = {} /\ NoPackageAbove(wanted[i]))
              => /\ \A order \in Orders(DOMAIN crates) :
                        resolve(fs, wanted[i], crates, order) = <<"unknown_crate", "?">>
                 /\ Resolved(i) => labels[i] = <<"unknown_crate", "?">>

\* a file under a malformed manifest was labelled with the sentinel and read
C3_Witness ==
    /\ pc = "done"
    /\ fs.memberMani = "bad"
    /\ \E i \in 1..Len(labels) :
           /\ Matching(wanted[i]) = {}
           /\ NoPackageAbove(wanted[i])
           /\ IsPrefix(Cwd \o <<MemberB>>, Place(wanted[i]))
           /\ labels[i] = <<"unknown_crate", "?">>

----------------------------------------------------------------------------
(* C4: no partial bundle.  Nothing is written to the clipboard or to       *)
(* standard output before the compose loop has finished, and a run that a  *)
(* failed read has ended has written nothing to either, however many files *)
(* were read before.                                                       *)
ReadFailed == pc = "failed" /\ idx < Len(wanted)

C4_NoPartialBundle ==
    /\ pc \in {"crate_map", "walk", "compose"} => stdout = <<>> /\ clipboard = <<>>
    /\ ReadFailed => stdout = <<>> /\ clipboard = <<>> /\ exit = "error"

\* a read failed after two files had been read
C4_Witness == ReadFailed /\ idx >= 2 /\ out # <<>>

----------------------------------------------------------------------------
(* C5: clipboard delivery errors are not fatal.  When the clipboard is     *)
(* selected and delivery to it fails, at Clipboard::new or at set_text,    *)
(* the run warns on the error stream, prints the whole composed text to    *)
(* standard output and ends successfully.                                  *)
DeliveryFailed ==
    /\ pc \in {"done", "failed"}
    /\ idx = Len(wanted)
    /\ ~opts.no_clipboard
    /\ clipboard = <<>>

C5_ClipboardNotFatal ==
    DeliveryFailed
    => /\ exit = "ok"
       /\ stdout = <<out>>
       /\ stderr # <<>> /\ stderr[Len(stderr)] = "clipboard unavailable; printing to stdout"

----------------------------------------------------------------------------
(* C6: a manifest at the root that does not parse, the root not being a    *)
(* key, makes crate_map return an error: the run ends with a non-zero      *)
(* status and delivers nothing.                                            *)
C6_BadRootManifestFatal ==
    (pc # "crate_map" /\ fs.rootMani = "bad" /\ opts.dir \notin DOMAIN crates)
    => /\ pc = "failed"
       /\ exit = "error"
       /\ stdout = <<>> /\ clipboard = <<>>

----------------------------------------------------------------------------
(* C7: candidate selection.  A regular file the walk visited is a          *)
(* candidate if and only if it is named Cargo.toml or its extension is in  *)
(* the effective allow-list (the extensions given, or rs and toml when     *)
(* none is given).                                                         *)
AllowList == IF opts.exts = <<>> THEN {"rs", "toml"} ELSE Range(opts.exts)

\* the extension each file name of the work-tree has
HasExtension(name, x) ==
    \/ name = <<"main", ".", "rs">> /\ x = "rs"
    \/ name = <<"old", ".", "rs">> /\ x = "rs"
    \/ name = <<"notes", ".", "txt">> /\ x = "txt"
    \/ name = <<"Cargo", ".", "toml">> /\ x = "toml"

Selected(path) ==
    \/ Last(path) = <<"Cargo", ".", "toml">>
    \/ \E x \in AllowList : HasExtension(Last(path), x)

C7_CandidateIff == \A path \in seen : (path \in Range(wanted)) <=> Selected(path)

\* the walk is over: a Cargo.toml is a candidate though toml is not allowed,
\* and files without an extension or with another one are not
C7_Witness ==
    /\ pc = "compose"
    /\ "toml" \notin AllowList
    /\ \E path \in seen : Last(path) = CargoToml /\ path \in Range(wanted)
    /\ \E path \in seen : Last(path) = Makefile /\ path \notin Range(wanted)
    /\ \E path \in seen : Last(path) = DotEnv /\ path \notin Range(wanted)
    /\ \E path \in seen : Last(path) = MainRs /\ path \notin Range(wanted)

----------------------------------------------------------------------------
(* C8: exclusion before inclusion.  No candidate is matched by an ignore   *)
(* rule, and none lies at or below an entry named target, .git or          *)
(* node_modules, whatever its extension or name.                           *)
Excluded(rel) ==
    \/ rel = <<OldRs>>
    \/ \E j \in 1..Len(rel) : rel[j] \in {<<"target">>, <<".", "git">>, <<"node_modules">>}

----------------------------------------------------------------------------
(* C9: order and shape of the bundle.  Once the walk is over the candidate *)
(* list is strictly ascending and holds every candidate the walk found;    *)
(* the composed text is, for the files composed so far in that order, the  *)
(* header `=== <name> v<version> :: <relative path> ===` and a newline,    *)
(* the text of the file, and one newline, with nothing in between; the     *)
(* text delivered is that of all the candidates.                           *)
Section(i) ==
    <<"=== ", labels[i][1], " v", labels[i][2], " :: ">>
    \o display(RelOf(wanted[i]))
    \o <<" ===\n">>
    \o Content(Place(wanted[i]))
    \o <<"\n">>

RECURSIVE Bundle(_)
Bundle(n) == IF n = 0 THEN <<>> ELSE Bundle(n - 1) \o Section(n)

C9_BundleShape ==
    pc \in {"compose", "done"} =>
        /\ \A i, j \in 1..Len(wanted) : i < j => PathLess(wanted[i], wanted[j])
        /\ Range(wanted) = {path \in seen : Selected(path)}
        /\ out = Bundle(idx)
        /\ pc = "done" => /\ idx = Len(wanted)
                          /\ stdout \o clipboard = <<Bundle(Len(wanted))>>

\* a bundle of at least three sections, of more than one package, was delivered
C9_Witness ==
    /\ pc = "done"
    /\ Len(wanted) >= 3
    /\ Cardinality(Range(labels)) >= 2
    /\ stdout \o clipboard = <<out>>

----------------------------------------------------------------------------
(* C10 as stated: every directory at or below the root whose manifest has  *)
(* a package section is a key of the index, mapped to the name and version *)
(* of that manifest.                                                       *)
PackageDirs ==
    {d \in {<<>>, <<MemberB>>, <<MemberB, Src>>} :
        ManiKind(fs, Cwd \o d \o <<CargoToml>>) \in WithPackage}

C10_EveryManifestIndexed ==
    pc # "crate_map" =>
        \A d \in PackageDirs :
            \E k \in DOMAIN crates :
                /\ Abs(k) = Cwd \o d
                /\ crates[k][1] = PkgName(Cwd \o d)
                /\ crates[k][2] \in {PkgVersion(Cwd \o d), "<workspace>"}

(* C10 as amended: the index holds, for every package the metadata query   *)
(* reported, its manifest directory mapped to its name and version, and    *)
(* these entries are never replaced; it holds the root as given, mapped to *)
(* the package of the root's own manifest, when that manifest parses with  *)
(* a package section and the root is not a key already; it holds no other  *)
(* key.                                                                    *)
MdDirs == IF metadata.ok THEN {q.dir : q \in metadata.packages} ELSE {}

RootStandalone == fs.rootMani \in {"pkg", "wspkg", "wsinherit"}

RootStandaloneRecord ==
    <<"foo", IF fs.rootMani = "wsinherit" THEN "<workspace>" ELSE "1.0.0">>

C10_IndexContents ==
    pc # "crate_map" =>
        /\ metadata.ok =>
               \A q \in metadata.packages :
                   q.dir \in DOMAIN crates /\ crates[q.dir] = <<q.name, q.version>>
        /\ RootStandalone =>
               /\ opts.dir \in DOMAIN crates
               /\ opts.dir \notin MdDirs => crates[opts.dir] = RootStandaloneRecord
        /\ \A k \in DOMAIN crates : k \in MdDirs \/ (k = opts.dir /\ RootStandalone)

\* the query reported the root package of a workspace, the root is given as
\* that very directory, and the root's own manifest would render otherwise
C10_Witness ==
    /\ pc # "crate_map"
    /\ metadata.ok
    /\ opts.dir \in MdDirs
    /\ fs.rootMani = "wsinherit"
    /\ crates[opts.dir] = <<"foo", "1.0.0">>
    /\ Cardinality(DOMAIN crates) >= 2

====
